---- MODULE Spec2Model ----
(***************************************************************************)
(* applechess: ChessAgent (src/applechess/chess_agent.py).                 *)
(*                                                                         *)
(* The search-and-evaluation core: _get_heuristic, get_ordered_legal_moves,*)
(* play_move, _alphabeta and get_best_move.                                *)
(*                                                                         *)
(* Scores are floats in the source; here every score is an integer number  *)
(* of hundredths (0.15 is 15, 0.5 is 50, 1e6 is 100000000, True is 100);   *)
(* the rounding of floating-point sums is not modelled.                    *)
(*                                                                         *)
(* The rules engine (the chess package) is not part of the repository.     *)
(* It is modelled by what it computes on a chess.Board: piece placement,   *)
(* attacks, push, check, checkmate, stalemate, insufficient material and   *)
(* the halfmove-clock rules.  Its move generator is restricted to a finite *)
(* repertoire of moves (MoveRepertoire), which keeps every game tree       *)
(* small; castling and repetition counting are not modelled.               *)
(***************************************************************************)
EXTENDS Integers, Sequences, FiniteSets, TLC

(***************************************************************************)
(* chess constants used by the source                                      *)
(***************************************************************************)
WHITE == TRUE
BLACK == FALSE

PAWN == "PAWN"
KNIGHT == "KNIGHT"
BISHOP == "BISHOP"
ROOK == "ROOK"
QUEEN == "QUEEN"
KING == "KING"
NONE == "None"

SQUARES == 0 .. 63

\* chess.square(file, rank)
square(f, r) == r * 8 + f
square_file(sq) == sq % 8
square_rank(sq) == sq \div 8

B1 == 1
C1 == 2
F1 == 5
G1 == 6
D4 == 27
E4 == 28
D5 == 35
E5 == 36
B8 == 57
C8 == 58
F8 == 61
G8 == 62

Piece(c, t) == [color |-> c, piece_type |-> t]
NoPiece == [color |-> WHITE, piece_type |-> NONE]
Move(f, t, p) == [from_square |-> f, to_square |-> t, promotion |-> p]

Abs(x) == IF x < 0 THEN -x ELSE x
Sign(x) == IF x < 0 THEN -1 ELSE IF x > 0 THEN 1 ELSE 0
Max2(x, y) == IF x >= y THEN x ELSE y
Min2(x, y) == IF x <= y THEN x ELSE y

(***************************************************************************)
(* chess.Board: a record                                                   *)
(*   turn, move_stack, halfmove_clock, ep_square, pm (the piece map)       *)
(***************************************************************************)
NoSquare == Cardinality(SQUARES)

piece_map(board) == board.pm
piece_at(board, sq) == IF sq \in DOMAIN board.pm THEN board.pm[sq] ELSE NoPiece
pieces(board, t, c) ==
  {s \in DOMAIN board.pm : board.pm[s].piece_type = t /\ board.pm[s].color = c}
\* board.king(color): the square of the king, NoSquare when there is none
king(board, c) ==
  IF pieces(board, KING, c) = {} THEN NoSquare
  ELSE CHOOSE s \in pieces(board, KING, c) : TRUE

\* the squares strictly between two squares of one rank, file or diagonal
Between(a, b) ==
  LET df == square_file(b) - square_file(a)
      dr == square_rank(b) - square_rank(a)
      n == Max2(Abs(df), Abs(dr))
  IN {a + k * (Sign(dr) * 8 + Sign(df)) : k \in 1 .. (n - 1)}

\* the piece on square a of placement pm attacks square b
Attacks(pm, a, b) ==
  LET p == pm[a]
      df == square_file(b) - square_file(a)
      dr == square_rank(b) - square_rank(a)
      clear == Between(a, b) \cap DOMAIN pm = {}
      straight == (df = 0 \/ dr = 0) /\ a # b /\ clear
      diagonal == Abs(df) = Abs(dr) /\ a # b /\ clear
  IN CASE p.piece_type = PAWN ->
            Abs(df) = 1 /\ dr = (IF p.color = WHITE THEN 1 ELSE -1)
       [] p.piece_type = KNIGHT ->
            {Abs(df), Abs(dr)} = {1, 2}
       [] p.piece_type = KING ->
            Max2(Abs(df), Abs(dr)) = 1
       [] p.piece_type = ROOK -> straight
       [] p.piece_type = BISHOP -> diagonal
       [] p.piece_type = QUEEN -> straight \/ diagonal
       [] OTHER -> FALSE

\* board.attackers(color, square)
attackers(board, c, sq) ==
  {s \in DOMAIN board.pm : board.pm[s].color = c /\ Attacks(board.pm, s, sq)}

is_en_passant(board, m) ==
  /\ board.ep_square = m.to_square
  /\ piece_at(board, m.from_square).piece_type = PAWN
  /\ Abs(m.to_square - m.from_square) \in {7, 9}
  /\ m.to_square \notin DOMAIN board.pm

\* board.is_capture(move)
is_capture(board, m) ==
  \/ /\ m.to_square \in DOMAIN board.pm
     /\ board.pm[m.to_square].color # board.turn
  \/ is_en_passant(board, m)

\* board.is_zeroing(move): a capture or a pawn move resets the halfmove clock
is_zeroing(board, m) ==
  \/ piece_at(board, m.from_square).piece_type = PAWN
  \/ m.to_square \in DOMAIN board.pm

\* board.push(move), as a function from the board to the board after the move
Push(board, m) ==
  LET p == board.pm[m.from_square]
      placed == IF m.promotion # NONE THEN Piece(p.color, m.promotion) ELSE p
      forward == IF board.turn = WHITE THEN 8 ELSE -8
      taken == IF is_en_passant(board, m) THEN {m.to_square - forward} ELSE {}
      double == p.piece_type = PAWN /\ Abs(m.to_square - m.from_square) = 16
      occupied == ((DOMAIN board.pm) \ ({m.from_square} \cup taken))
                     \cup {m.to_square}
  IN [turn |-> ~board.turn,
      move_stack |-> Append(board.move_stack, m),
      halfmove_clock |-> IF is_zeroing(board, m) THEN 0
                         ELSE board.halfmove_clock + 1,
      ep_square |-> IF double THEN m.from_square + forward ELSE NoSquare,
      pm |-> [s \in occupied |-> IF s = m.to_square THEN placed
                                  ELSE board.pm[s]]]

\* the move obeys the movement rules of its piece (check aside)
is_pseudo_legal(board, m) ==
  LET f == m.from_square
      t == m.to_square
      p == piece_at(board, f)
      forward == IF board.turn = WHITE THEN 8 ELSE -8
      start_rank == IF board.turn = WHITE THEN 1 ELSE 6
      last_rank == IF board.turn = WHITE THEN 7 ELSE 0
  IN /\ p.piece_type # NONE
     /\ p.color = board.turn
     /\ ~(t \in DOMAIN board.pm /\ board.pm[t].color = board.turn)
     /\ piece_at(board, t).piece_type # KING
     /\ IF p.piece_type = PAWN
        THEN /\ \/ t = f + forward /\ t \notin DOMAIN board.pm
                \/ /\ t = f + 2 * forward
                   /\ square_rank(f) = start_rank
                   /\ (f + forward) \notin DOMAIN board.pm
                   /\ t \notin DOMAIN board.pm
                \/ Attacks(board.pm, f, t) /\ is_capture(board, m)
             /\ (m.promotion # NONE) <=> (square_rank(t) = last_rank)
             /\ m.promotion \in {NONE, QUEEN, ROOK, BISHOP, KNIGHT}
        ELSE Attacks(board.pm, f, t) /\ m.promotion = NONE

\* board.is_check()
is_check(board) ==
  /\ king(board, board.turn) # NoSquare
  /\ attackers(board, ~board.turn, king(board, board.turn)) # {}

\* board.is_into_check(move): the move leaves the mover's own king attacked
is_into_check(board, m) ==
  LET after == Push(board, m)
      k == king(after, board.turn)
  IN k # NoSquare /\ attackers(after, ~board.turn, k) # {}

(***************************************************************************)
(* The move generator.  At(f, r) is the square of file f (1 = a .. 8 = h)  *)
(* and rank r (1 .. 8).  The generator yields, in the order of             *)
(* MoveRepertoire, the repertoire moves that are legal on the board.       *)
(***************************************************************************)
At(f, r) == square(f - 1, r - 1)
Mv(ff, fr, tf, tr) == Move(At(ff, fr), At(tf, tr), NONE)
Promo(ff, fr, tf, tr, p) == Move(At(ff, fr), At(tf, tr), p)

MoveRepertoire ==
  << \* queen and king ending in the a8 corner
     Mv(1, 8, 2, 8),   \* Ka8-b8
     Mv(2, 8, 1, 8),   \* Kb8-a8
     Mv(8, 7, 7, 7),   \* Qh7-g7
     Mv(8, 7, 3, 7),   \* Qh7-c7
     Mv(8, 7, 2, 7),   \* Qh7-b7
     Mv(7, 1, 3, 1),   \* Qg1-c1
     Mv(3, 1, 3, 2),   \* Qc1-c2
     Mv(3, 1, 3, 8),   \* Qc1-c8
     Mv(2, 6, 3, 6),   \* Kb6-c6
     \* rook, queen and pawns in the centre
     Mv(7, 1, 8, 1),   \* Kg1-h1
     Mv(4, 1, 4, 5),   \* Rd1xd5
     Mv(5, 4, 4, 5),   \* e4xd5
     Mv(4, 1, 4, 8),   \* Rd1xd8
     Mv(7, 8, 8, 8),   \* Kg8-h8
     Mv(7, 8, 7, 7),   \* Kg8-g7
     Mv(4, 5, 5, 4),   \* d5xe4
     Mv(4, 8, 4, 5),   \* Qd8xd5
     \* pawns: double step, en passant, promotion
     Mv(4, 7, 4, 5),   \* d7-d5
     Mv(4, 7, 4, 6),   \* d7-d6
     Mv(5, 5, 4, 6),   \* e5xd6 (en passant after d7-d5)
     Mv(5, 5, 5, 6),   \* e5-e6
     Promo(1, 7, 1, 8, QUEEN),   \* a7-a8=Q
     Promo(1, 7, 1, 8, KNIGHT),  \* a7-a8=N
     Mv(8, 8, 8, 7),   \* Kh8-h7
     Mv(5, 1, 5, 2),   \* Ke1-e2
     \* knight against a pawn on the f file
     Mv(8, 1, 8, 2),   \* Kh1-h2
     Mv(1, 6, 3, 7),   \* Na6-c7
     Mv(3, 7, 5, 8),   \* Nc7-e8
     Mv(6, 1, 6, 2),   \* Kf1-f2, Kf1xf2
     Mv(6, 2, 6, 3),   \* Kf2xf3
     Mv(6, 4, 6, 3),   \* f4-f3
     Mv(6, 3, 6, 2)    \* f3-f2
  >>

is_legal(board, m) == is_pseudo_legal(board, m) /\ ~is_into_check(board, m)

\* list(board.legal_moves)
legal_moves(board) ==
  LET Legal(m) == is_legal(board, m)
  IN SelectSeq(MoveRepertoire, Legal)

\* board.is_insufficient_material(): no pawn, rook or queen and at most one
\* minor piece on the board
is_insufficient_material(board) ==
  /\ \A s \in DOMAIN board.pm :
        board.pm[s].piece_type \in {KING, KNIGHT, BISHOP}
  /\ Cardinality({s \in DOMAIN board.pm : board.pm[s].piece_type # KING}) <= 1

\* chess.Outcome: winner is NONE, "WHITE" or "BLACK"
color_name(c) == IF c = WHITE THEN "WHITE" ELSE "BLACK"
Outcome(t, w) == [termination |-> t, winner |-> w]
NoOutcome == Outcome(NONE, NONE)

\* board.outcome() (claim_draw = False)
outcome(board) ==
  LET no_moves == Len(legal_moves(board)) = 0
  IN IF is_check(board) /\ no_moves
       THEN Outcome("CHECKMATE", color_name(~board.turn))
     ELSE IF is_insufficient_material(board)
       THEN Outcome("INSUFFICIENT_MATERIAL", NONE)
     ELSE IF no_moves
       THEN Outcome("STALEMATE", NONE)
     ELSE IF board.halfmove_clock >= 150
       THEN Outcome("SEVENTYFIVE_MOVES", NONE)
     ELSE NoOutcome

\* board.is_fifty_moves()
is_fifty_moves(board) ==
  board.halfmove_clock >= 100 /\ Len(legal_moves(board)) > 0

\* board.can_claim_draw(), by the fifty-move rule
can_claim_draw(board) ==
  \/ is_fifty_moves(board)
  \/ /\ board.halfmove_clock >= 99
     /\ \E i \in DOMAIN legal_moves(board) :
          LET m == legal_moves(board)[i]
          IN ~is_zeroing(board, m) /\ is_fifty_moves(Push(board, m))

(***************************************************************************)
(* ChessAgent: the position evaluator                                      *)
(***************************************************************************)
OPENING == "OPENING"
MIDGAME == "MIDGAME"
ENDGAME == "ENDGAME"

\* 1e6, the score of a won game, in hundredths
WinScore == 100000000
\* float("inf"), larger than every score
Inf == 1000000000

get_value(piece) ==
  CASE piece.piece_type = BISHOP -> 3
    [] piece.piece_type = KNIGHT -> 3
    [] piece.piece_type = QUEEN -> 9
    [] piece.piece_type = ROOK -> 5
    [] piece.piece_type = PAWN -> 1
    [] OTHER -> 0

\* ChessAgent.__pawns_per_column: the number of pawns of a colour on each file
pawns_per_column(board, color) ==
  [i \in 0 .. 7 |->
     Cardinality({pawn \in pieces(board, PAWN, color) : pawn % 8 = i})]

\* the sum of f[x] over the elements x of the finite set S
RECURSIVE SumOver(_, _)
SumOver(f, S) ==
  IF S = {} THEN 0
  ELSE LET x == CHOOSE y \in S : TRUE
       IN f[x] + SumOver(f, S \ {x})

\* a faulty variant of game_phase_of: the number of pieces is tested first
game_phase_of_endgame_first(board) ==
  IF Cardinality(DOMAIN piece_map(board)) < 13 THEN ENDGAME
  ELSE IF Len(board.move_stack) < 12 THEN OPENING
  ELSE MIDGAME

\* lines 107-118: the game phase of an undecided position
game_phase_of(board) ==
  IF Len(board.move_stack) < 12 THEN OPENING
  ELSE IF Cardinality(DOMAIN piece_map(board)) < 13 THEN ENDGAME
  ELSE MIDGAME

\* lines 121-128: reward good king position
king_position_term(board, color) ==
  LET king_square == king(board, color)
  IN IF color = WHITE
     THEN (IF king_square \in {G1, C1, B1} THEN 10 ELSE 0)
     ELSE (IF king_square \in {G8, C8, B8} THEN 10 ELSE 0)

\* lines 130-139: reward control of the center
center_term(board, color) ==
  LET center_squares == {E4, E5, D4, D5}
      term == [sq \in center_squares |->
                 IF piece_at(board, sq).piece_type = NONE
                   THEN 15 * Cardinality(attackers(board, color, sq))
                 ELSE IF piece_at(board, sq).color = color THEN 40
                 ELSE -40]
  IN SumOver(term, center_squares)

\* a faulty variant of double_pawn_term: every file with a pawn is punished
double_pawn_term_any_pawn(board, color) ==
  LET ppc == pawns_per_column(board, color)
  IN -30 * Cardinality({i \in 0 .. 7 : ppc[i] > 0})

\* lines 141-145: punish double pawns
double_pawn_term(board, color) ==
  LET ppc == pawns_per_column(board, color)
  IN -30 * Cardinality({i \in 0 .. 7 : ppc[i] > 1})

\* lines 148-168: development of bishops and knights, queen at home
opening_term(board, color) ==
  LET initial_squares == IF color = WHITE THEN {B1, G1, C1, F1}
                         ELSE {B8, G8, C8, F8}
      undeveloped == {sq \in initial_squares :
                        /\ piece_at(board, sq).piece_type # NONE
                        /\ piece_at(board, sq).color = color
                        /\ piece_at(board, sq).piece_type \in {BISHOP, KNIGHT}}
      queen == pieces(board, QUEEN, color)
      squares == IF color = WHITE
                 THEN {sq \in SQUARES : square_rank(sq) \in {0, 1}}
                 ELSE {sq \in SQUARES : square_rank(sq) \in {6, 7}}
  IN -10 * Cardinality(undeveloped)
       + (IF Cardinality(queen) = 1 /\ queen \subseteq squares THEN 15 ELSE 0)

\* lines 174-181 and 198-205: passed pawns, weight w
passed_pawn_term(board, color, w) ==
  LET ppc == pawns_per_column(board, color)
      opp == pawns_per_column(board, ~color)
  IN w * Cardinality({i \in 0 .. 7 : ppc[i] > 0 /\ opp[i] = 0})
       - w * Cardinality({i \in 0 .. 7 : opp[i] > 0 /\ ppc[i] = 0})

\* lines 183-192: punish isolated pawns
isolated_pawn_term(board, color) ==
  LET ppc == pawns_per_column(board, color)
      term == [i \in 0 .. 7 |->
                 IF i = 0
                   THEN (IF ppc[i] > 0 /\ ppc[i + 1] = 0 THEN -15 ELSE 0)
                 ELSE IF i = 7
                   THEN (IF ppc[i] > 0 /\ ppc[i - 1] = 0 THEN -15 ELSE 0)
                 ELSE IF ppc[i] > 0 /\ ppc[i - 1] = 0 /\ ppc[i + 1] = 0
                   THEN -20
                 ELSE 0]
  IN SumOver(term, 0 .. 7)

\* lines 207-210: reward king activity
king_activity_term(board) ==
  LET moves == legal_moves(board)
  IN 10 * Cardinality({i \in DOMAIN moves :
           piece_at(board, moves[i].from_square).piece_type = KING})

\* lines 212-229: difference of material, weighted by the game phase
material_term(board, color, game_phase) ==
  LET pm == piece_map(board)
      own == [sq \in DOMAIN pm |->
                IF pm[sq].color = color THEN get_value(pm[sq]) ELSE 0]
      other == [sq \in DOMAIN pm |->
                  IF pm[sq].color = color THEN 0 ELSE get_value(pm[sq])]
      agent_material == SumOver(own, DOMAIN pm)
      opponent_material == SumOver(other, DOMAIN pm)
      diff_material == agent_material - opponent_material
  IN IF game_phase = OPENING THEN 100 * diff_material
     ELSE IF game_phase = MIDGAME THEN 150 * diff_material
     ELSE 300 * diff_material

\* a faulty variant of decided_score: infinity as the score of a won or lost
\* game
decided_score_infinite(oc, color) ==
  IF oc.winner = NONE THEN 50
  ELSE IF oc.winner = color_name(color) THEN Inf
  ELSE -Inf

\* a faulty variant of decided_score: the winner is tested for truth
\* (chess.WHITE is True, chess.BLACK is False) and never compared with color
decided_score_winner_as_truth(oc, color) ==
  IF oc.winner = NONE THEN 50
  ELSE IF oc.winner = color_name(WHITE) THEN WinScore
  ELSE -WinScore

\* lines 230-239: the score of a decided game
decided_score(oc, color) ==
  IF oc.winner = NONE THEN 50
  ELSE IF oc.winner = color_name(color) THEN WinScore
  ELSE -WinScore

\* a faulty variant of undecided_score: without the return of lines 108-109
undecided_score_without_claim(board, color) ==
  LET game_phase == game_phase_of(board)
  IN (IF game_phase \in {OPENING, MIDGAME}
        THEN king_position_term(board, color)
               + center_term(board, color)
               + double_pawn_term(board, color)
      ELSE 0)
     + (IF game_phase = OPENING THEN opening_term(board, color)
        ELSE IF game_phase = MIDGAME
          THEN passed_pawn_term(board, color, 20)
                 + isolated_pawn_term(board, color)
        ELSE passed_pawn_term(board, color, 100)
               + king_activity_term(board))
     + material_term(board, color, game_phase)

\* lines 107-229: the score of a position without a decided outcome
undecided_score(board, color) ==
  LET game_phase == game_phase_of(board)
  IN IF can_claim_draw(board) THEN 50
     ELSE (IF game_phase \in {OPENING, MIDGAME}
             THEN king_position_term(board, color)
                    + center_term(board, color)
                    + double_pawn_term(board, color)
           ELSE 0)
          + (IF game_phase = OPENING THEN opening_term(board, color)
             ELSE IF game_phase = MIDGAME
               THEN passed_pawn_term(board, color, 20)
                      + isolated_pawn_term(board, color)
             ELSE passed_pawn_term(board, color, 100)
                    + king_activity_term(board))
          + material_term(board, color, game_phase)

_get_heuristic(board, color) ==
  LET oc == outcome(board)
  IN IF oc = NoOutcome THEN undecided_score(board, color)
     ELSE decided_score(oc, color)

\* ChessAgent.play_move: board.copy() and push(move) on the copy
play_move(board, move) == Push(board, move)

\* board.copy(stack=False): a copy that does not take the move history
copy_without_stack(board) ==
  [turn |-> board.turn,
   move_stack |-> << >>,
   halfmove_clock |-> board.halfmove_clock,
   ep_square |-> board.ep_square,
   pm |-> board.pm]

\* line 251, board.copy(): a board with the placement, the side to move, the
\* clocks and the move history of board
copy(board) ==
  [turn |-> board.turn,
   move_stack |-> board.move_stack,
   halfmove_clock |-> board.halfmove_clock,
   ep_square |-> board.ep_square,
   pm |-> board.pm]

\* lines 251-253 on the objects of the call: the parameter board and the
\* local new_board, as they are when play_move returns new_board
play_move_objects(board, move) ==
  LET copied == [board |-> board, new_board |-> copy(board)]
  IN [copied EXCEPT !.new_board = Push(copied.new_board, move)]

\* the board a caller holds after it passed it to play_move for the first k
\* of the moves
RECURSIVE after_play_moves(_, _, _)
after_play_moves(board, moves, k) ==
  IF k = 0 THEN board
  ELSE play_move_objects(after_play_moves(board, moves, k - 1),
                         moves[k]).board

(***************************************************************************)
(* ChessAgent: move ordering and search                                    *)
(***************************************************************************)
\* lines 266-279: the priority of one move
move_priority(board, move) ==
  (IF is_capture(board, move)
     THEN IF piece_at(board, move.to_square).piece_type = NONE
            THEN 10    \* AttributeError: no piece on the destination square
          ELSE get_value(piece_at(board, move.to_square))
                 - get_value(piece_at(board, move.from_square))
   ELSE -10)
  + (IF move.promotion # NONE THEN 50 ELSE 0)
  + (IF is_into_check(board, move) THEN 5 ELSE 0)

\* a faulty variant of SortDescending: the sort without reverse=True
RECURSIVE SortAscending(_)
SortAscending(pairs) ==
  IF Len(pairs) = 0 THEN << >>
  ELSE LET least == CHOOSE i \in DOMAIN pairs :
                      /\ \A j \in DOMAIN pairs : pairs[i][1] <= pairs[j][1]
                      /\ \A j \in 1 .. (i - 1) : pairs[i][1] < pairs[j][1]
       IN << pairs[least] >>
            \o SortAscending(SubSeq(pairs, 1, least - 1)
                               \o SubSeq(pairs, least + 1, Len(pairs)))

\* list.sort(key=lambda x: x[0], reverse=True) on a list of (score, move)
\* pairs: descending by score and stable
RECURSIVE SortDescending(_)
SortDescending(pairs) ==
  IF Len(pairs) = 0 THEN << >>
  ELSE LET best == CHOOSE i \in DOMAIN pairs :
                     /\ \A j \in DOMAIN pairs : pairs[j][1] <= pairs[i][1]
                     /\ \A j \in 1 .. (i - 1) : pairs[j][1] < pairs[i][1]
       IN << pairs[best] >>
            \o SortDescending(SubSeq(pairs, 1, best - 1)
                                \o SubSeq(pairs, best + 1, Len(pairs)))

RECURSIVE PairsOf(_, _)
PairsOf(board, moves) ==
  IF Len(moves) = 0 THEN << >>
  ELSE << << move_priority(board, Head(moves)), Head(moves) >> >>
         \o PairsOf(board, Tail(moves))

RECURSIVE MovesOf(_)
MovesOf(pairs) ==
  IF Len(pairs) = 0 THEN << >>
  ELSE << Head(pairs)[2] >> \o MovesOf(Tail(pairs))

get_ordered_legal_moves(board) ==
  LET sorted_moves == PairsOf(board, legal_moves(board))
  IN MovesOf(SortDescending(sorted_moves))

\* max(values) and min(values) of a list, given as the set of its elements
MaxOf(S) == CHOOSE x \in S : \A y \in S : y <= x
MinOf(S) == CHOOSE x \in S : \A y \in S : x <= y

\* The search returns a score; the model also counts the calls of _alphabeta
\* the search makes (the nodes it visits): a result is a record value, visited.
Result(v, n) == [value |-> v, visited |-> n]

RECURSIVE pool_results(_, _, _, _, _, _, _, _)
RECURSIVE _alphabeta(_, _, _, _, _, _, _)
RECURSIVE maximizing_loop(_, _, _, _, _, _, _, _, _)
RECURSIVE minimizing_loop(_, _, _, _, _, _, _, _, _)

\* a faulty variant of maximizing_loop: the cutoff compares with alpha
maximizing_loop_cut_on_alpha(node, moves, i, depth, color, value, a, b, n) ==
  IF i > Len(moves) THEN Result(value, n)
  ELSE LET child == play_move(node, moves[i])
           r == _alphabeta(child, depth - 1, color, FALSE, a, b, FALSE)
           value2 == Max2(value, r.value)
           a2 == Max2(a, value2)
       IN IF value2 > a THEN Result(value2, n + r.visited)
          ELSE maximizing_loop(node, moves, i + 1, depth, color, value2, a2, b,
                               n + r.visited)

\* lines 324-332: the loop of a maximizing node from the i-th ordered move on,
\* with the running value, the running alpha and the nodes visited so far
maximizing_loop(node, moves, i, depth, color, value, a, b, n) ==
  IF i > Len(moves) THEN Result(value, n)
  ELSE LET child == play_move(node, moves[i])
           r == _alphabeta(child, depth - 1, color, FALSE, a, b, FALSE)
           value2 == Max2(value, r.value)
           a2 == Max2(a, value2)
       IN IF value2 > b THEN Result(value2, n + r.visited)
          ELSE maximizing_loop(node, moves, i + 1, depth, color, value2, a2, b,
                               n + r.visited)

\* lines 334-341: the loop of a minimizing node
minimizing_loop(node, moves, i, depth, color, value, a, b, n) ==
  IF i > Len(moves) THEN Result(value, n)
  ELSE LET child == play_move(node, moves[i])
           r == _alphabeta(child, depth - 1, color, TRUE, a, b, FALSE)
           value2 == Min2(value, r.value)
           b2 == Min2(b, value2)
       IN IF value2 <= a THEN Result(value2, n + r.visited)
          ELSE minimizing_loop(node, moves, i + 1, depth, color, value2, a, b2,
                               n + r.visited)

\* lines 313-319: every child is submitted to the executor of the node;
\* the results of the futures from the i-th ordered move on
pool_results(node, moves, i, depth, color, maximizing_player, a, b) ==
  IF i > Len(moves) THEN << >>
  ELSE << _alphabeta(play_move(node, moves[i]), depth - 1, color,
                     ~maximizing_player, a, b, FALSE) >>
         \o pool_results(node, moves, i + 1, depth, color, maximizing_player,
                         a, b)

\* lines 311-322: the parallel branch of a node
pool_of_node(node, depth, color, maximizing_player, a, b) ==
  LET results == pool_results(node, get_ordered_legal_moves(node), 1, depth,
                              color, maximizing_player, a, b)
      values == {results[i].value : i \in DOMAIN results}
      counts == [i \in DOMAIN results |-> results[i].visited]
  IN Result(IF maximizing_player THEN MaxOf(values) ELSE MinOf(values),
            1 + SumOver(counts, DOMAIN results))

_alphabeta(node, depth, color, maximizing_player, a, b, parallelize) ==
  IF depth = 0 \/ outcome(node) # NoOutcome
    THEN Result(_get_heuristic(node, color), 1)
  ELSE IF parallelize
    THEN pool_of_node(node, depth, color, maximizing_player, a, b)
  ELSE IF maximizing_player
    THEN maximizing_loop(node, get_ordered_legal_moves(node), 1, depth, color,
                         -Inf, a, b, 1)
  ELSE minimizing_loop(node, get_ordered_legal_moves(node), 1, depth, color,
                       Inf, a, b, 1)

(***************************************************************************)
(* The calls of _alphabeta a search makes                                  *)
(*                                                                         *)
(* The search is run once more, recording every call: the arguments of     *)
(* the call, the value it returns, the thread that runs it, the board      *)
(* object it works on, whether it expands the node, whether it creates a   *)
(* thread pool and the alpha and beta after each update of its loop.       *)
(*                                                                         *)
(* A frame says where a call runs: path is the list of the moves played    *)
(* from the root position (its length is the ply of the node), unit the    *)
(* thread of execution (<< >> is the thread that called get_best_move, a   *)
(* submitted task is named by the path of the node it is submitted for),   *)
(* id the board object (<< >> is self.board).                              *)
(***************************************************************************)
\* play_move without line 251: the move is pushed on the caller's board
board_copy_shared(id, move) == id

\* line 251: board.copy() makes a new board object, named by the object it
\* is copied from and the move pushed on it
board_copy(id, move) == Append(id, move)

MainFrame == [path |-> << >>, unit |-> << >>, id |-> << >>]

\* the frame of a child the caller searches itself (lines 327-328, 336-337)
called_frame(frame, move) ==
  [path |-> Append(frame.path, move),
   unit |-> frame.unit,
   id |-> board_copy(frame.id, move)]

\* the frame of a child submitted to an executor (lines 315-317, 356-358):
\* the task runs in a thread of the pool
submitted_frame(frame, move) ==
  [path |-> Append(frame.path, move),
   unit |-> Append(frame.path, move),
   id |-> board_copy(frame.id, move)]

\* the node of a call of _alphabeta when the call returns: play_move was
\* called on it for every ordered move in the pool branch (line 315), and in
\* a loop for the moves up to the cutoff (lines 327, 336), one per update
node_after_call(node, expanded, parallelize, updates) ==
  IF ~expanded THEN node
  ELSE after_play_moves(node, get_ordered_legal_moves(node),
                        IF parallelize
                          THEN Len(get_ordered_legal_moves(node))
                          ELSE Len(updates))

\* one call of _alphabeta
Visit(node, depth, color, maximizing_player, a, b, parallelize, frame, expanded, value, updates) ==
  [path |-> frame.path, unit |-> frame.unit, id |-> frame.id,
   depth |-> depth, color |-> color, maximizing_player |-> maximizing_player,
   a |-> a, b |-> b, parallelize |-> parallelize,
   turn |-> node.turn, decided |-> outcome(node) # NoOutcome,
   expanded |-> expanded, pool |-> expanded /\ parallelize,
   value |-> value, updates |-> updates,
   mutated |-> node_after_call(node, expanded, parallelize, updates) # node]

\* the result of a traced call or loop
Traced(v, cs, us) == [value |-> v, calls |-> cs, updates |-> us]

RECURSIVE traced_pool(_, _, _, _, _, _, _, _, _)
RECURSIVE traced_alphabeta(_, _, _, _, _, _, _, _)
RECURSIVE traced_maximizing_loop(_, _, _, _, _, _, _, _, _, _)
RECURSIVE traced_minimizing_loop(_, _, _, _, _, _, _, _, _, _)

\* a faulty variant of traced_maximizing_loop: the cutoff compares with alpha
traced_maximizing_loop_cut_on_alpha(node, moves, i, depth, color, value, a, b, frame, acc) ==
  IF i > Len(moves) THEN Traced(value, acc.calls, acc.updates)
  ELSE LET child == play_move(node, moves[i])
           r == traced_alphabeta(child, depth - 1, color, FALSE, a, b, FALSE,
                                 called_frame(frame, moves[i]))
           value2 == Max2(value, r.value)
           a2 == Max2(a, value2)
           calls2 == acc.calls \cup r.calls
           updates2 == Append(acc.updates,
                              [a |-> a2, b |-> b, cutoff |-> value2 > a])
       IN IF value2 > a THEN Traced(value2, calls2, updates2)
          ELSE traced_maximizing_loop(node, moves, i + 1, depth, color, value2,
                                      a2, b, frame, Traced(0, calls2, updates2))

\* lines 324-332 from the i-th ordered move on; acc holds the calls made and
\* the updates of alpha so far
traced_maximizing_loop(node, moves, i, depth, color, value, a, b, frame, acc) ==
  IF i > Len(moves) THEN Traced(value, acc.calls, acc.updates)
  ELSE LET child == play_move(node, moves[i])
           r == traced_alphabeta(child, depth - 1, color, FALSE, a, b, FALSE,
                                 called_frame(frame, moves[i]))
           value2 == Max2(value, r.value)
           a2 == Max2(a, value2)
           calls2 == acc.calls \cup r.calls
           updates2 == Append(acc.updates,
                              [a |-> a2, b |-> b, cutoff |-> value2 > b])
       IN IF value2 > b THEN Traced(value2, calls2, updates2)
          ELSE traced_maximizing_loop(node, moves, i + 1, depth, color, value2,
                                      a2, b, frame, Traced(0, calls2, updates2))

\* lines 334-341 from the i-th ordered move on
traced_minimizing_loop(node, moves, i, depth, color, value, a, b, frame, acc) ==
  IF i > Len(moves) THEN Traced(value, acc.calls, acc.updates)
  ELSE LET child == play_move(node, moves[i])
           r == traced_alphabeta(child, depth - 1, color, TRUE, a, b, FALSE,
                                 called_frame(frame, moves[i]))
           value2 == Min2(value, r.value)
           b2 == Min2(b, value2)
           calls2 == acc.calls \cup r.calls
           updates2 == Append(acc.updates,
                              [a |-> a, b |-> b2, cutoff |-> value2 <= a])
       IN IF value2 <= a THEN Traced(value2, calls2, updates2)
          ELSE traced_minimizing_loop(node, moves, i + 1, depth, color, value2,
                                      a, b2, frame, Traced(0, calls2, updates2))

\* a faulty variant of traced_pool: the maximizing flag is passed on as it is
traced_pool_same_flag(node, moves, i, depth, color, maximizing_player, a, b, frame) ==
  IF i > Len(moves) THEN << >>
  ELSE << traced_alphabeta(play_move(node, moves[i]), depth - 1, color,
                           maximizing_player, a, b, FALSE,
                           submitted_frame(frame, moves[i])) >>
         \o traced_pool(node, moves, i + 1, depth, color, maximizing_player,
                        a, b, frame)

\* lines 313-317 from the i-th ordered move on: the results of the tasks
traced_pool(node, moves, i, depth, color, maximizing_player, a, b, frame) ==
  IF i > Len(moves) THEN << >>
  ELSE << traced_alphabeta(play_move(node, moves[i]), depth - 1, color,
                           ~maximizing_player, a, b, FALSE,
                           submitted_frame(frame, moves[i])) >>
         \o traced_pool(node, moves, i + 1, depth, color, maximizing_player,
                        a, b, frame)

\* lines 308-309: the call of a node that is not expanded
traced_leaf(node, depth, color, maximizing_player, a, b, parallelize, frame, v) ==
  Traced(v,
         {Visit(node, depth, color, maximizing_player, a, b, parallelize,
                frame, FALSE, v, << >>)},
         << >>)

\* lines 319-322: the call of a node whose children ran as tasks
traced_pool_node(node, depth, color, maximizing_player, a, b, parallelize, frame, results, v) ==
  Traced(v,
         {Visit(node, depth, color, maximizing_player, a, b, parallelize,
                frame, TRUE, v, << >>)}
           \cup UNION {results[i].calls : i \in DOMAIN results},
         << >>)

\* lines 319-322: max(values) or min(values)
traced_pool_value(maximizing_player, results) ==
  IF maximizing_player THEN MaxOf({results[i].value : i \in DOMAIN results})
  ELSE MinOf({results[i].value : i \in DOMAIN results})

\* lines 332, 341: the call of a node whose loop returned r
traced_loop_node(node, depth, color, maximizing_player, a, b, parallelize, frame, r) ==
  Traced(r.value,
         {Visit(node, depth, color, maximizing_player, a, b, parallelize,
                frame, TRUE, r.value, r.updates)}
           \cup r.calls,
         << >>)

traced_alphabeta(node, depth, color, maximizing_player, a, b, parallelize, frame) ==
  IF depth = 0 \/ outcome(node) # NoOutcome
    THEN traced_leaf(node, depth, color, maximizing_player, a, b, parallelize,
                     frame, _get_heuristic(node, color))
  ELSE IF parallelize
    THEN LET results == traced_pool(node, get_ordered_legal_moves(node), 1,
                                    depth, color, maximizing_player, a, b,
                                    frame)
         IN traced_pool_node(node, depth, color, maximizing_player, a, b,
                             parallelize, frame, results,
                             traced_pool_value(maximizing_player, results))
  ELSE IF maximizing_player
    THEN traced_loop_node(node, depth, color, maximizing_player, a, b,
           parallelize, frame,
           traced_maximizing_loop(node, get_ordered_legal_moves(node), 1,
                                  depth, color, -Inf, a, b, frame,
                                  Traced(0, {}, << >>)))
  ELSE traced_loop_node(node, depth, color, maximizing_player, a, b,
         parallelize, frame,
         traced_minimizing_loop(node, get_ordered_legal_moves(node), 1,
                                depth, color, Inf, a, b, frame,
                                Traced(0, {}, << >>)))

(***************************************************************************)
(* The search with the legal moves of every node iterated in another order *)
(***************************************************************************)
RECURSIVE Reverse(_)
Reverse(seq) ==
  IF Len(seq) = 0 THEN << >> ELSE Append(Reverse(Tail(seq)), Head(seq))

\* the orders the moves of a node are iterated in: as board.legal_moves
\* yields them, the same reversed, rotated by one, and the order of
\* get_ordered_legal_moves reversed
Orders == {"generated", "reversed", "rotated", "worst_first"}

\* the list that stands for get_ordered_legal_moves(node) at lines 314, 326
\* and 335
moves_in_order(node, ord) ==
  LET legal == legal_moves(node)
  IN CASE ord = "generated" -> legal
       [] ord = "reversed" -> Reverse(legal)
       [] ord = "rotated" ->
            IF Len(legal) = 0 THEN legal ELSE Append(Tail(legal), Head(legal))
       [] ord = "worst_first" -> Reverse(get_ordered_legal_moves(node))

RECURSIVE permuted_pool(_, _, _, _, _, _, _, _, _)
RECURSIVE permuted_alphabeta(_, _, _, _, _, _, _, _)
RECURSIVE permuted_maximizing_loop(_, _, _, _, _, _, _, _, _)
RECURSIVE permuted_minimizing_loop(_, _, _, _, _, _, _, _, _)

\* a faulty variant of permuted_maximizing_loop: the cutoff compares with
\* alpha
permuted_maximizing_loop_cut_on_alpha(node, moves, i, depth, color, value, a, b, ord) ==
  IF i > Len(moves) THEN value
  ELSE LET child == play_move(node, moves[i])
           value2 == Max2(value,
                          permuted_alphabeta(child, depth - 1, color, FALSE,
                                             a, b, FALSE, ord))
       IN IF value2 > a THEN value2
          ELSE permuted_maximizing_loop(node, moves, i + 1, depth, color,
                                        value2, Max2(a, value2), b, ord)

\* lines 324-332 from the i-th move on
permuted_maximizing_loop(node, moves, i, depth, color, value, a, b, ord) ==
  IF i > Len(moves) THEN value
  ELSE LET child == play_move(node, moves[i])
           value2 == Max2(value,
                          permuted_alphabeta(child, depth - 1, color, FALSE,
                                             a, b, FALSE, ord))
       IN IF value2 > b THEN value2
          ELSE permuted_maximizing_loop(node, moves, i + 1, depth, color,
                                        value2, Max2(a, value2), b, ord)

\* lines 334-341 from the i-th move on
permuted_minimizing_loop(node, moves, i, depth, color, value, a, b, ord) ==
  IF i > Len(moves) THEN value
  ELSE LET child == play_move(node, moves[i])
           value2 == Min2(value,
                          permuted_alphabeta(child, depth - 1, color, TRUE,
                                             a, b, FALSE, ord))
       IN IF value2 <= a THEN value2
          ELSE permuted_minimizing_loop(node, moves, i + 1, depth, color,
                                        value2, a, Min2(b, value2), ord)

\* lines 313-319 from the i-th move on: the set of the values of the futures
permuted_pool(node, moves, i, depth, color, maximizing_player, a, b, ord) ==
  IF i > Len(moves) THEN {}
  ELSE {permuted_alphabeta(play_move(node, moves[i]), depth - 1, color,
                           ~maximizing_player, a, b, FALSE, ord)}
         \cup permuted_pool(node, moves, i + 1, depth, color,
                            maximizing_player, a, b, ord)

permuted_alphabeta(node, depth, color, maximizing_player, a, b, parallelize, ord) ==
  IF depth = 0 \/ outcome(node) # NoOutcome
    THEN _get_heuristic(node, color)
  ELSE IF parallelize
    THEN LET values == permuted_pool(node, moves_in_order(node, ord), 1, depth,
                                     color, maximizing_player, a, b, ord)
         IN IF maximizing_player THEN MaxOf(values) ELSE MinOf(values)
  ELSE IF maximizing_player
    THEN permuted_maximizing_loop(node, moves_in_order(node, ord), 1, depth,
                                  color, -Inf, a, b, ord)
  ELSE permuted_minimizing_loop(node, moves_in_order(node, ord), 1, depth,
                                color, Inf, a, b, ord)

(***************************************************************************)
(* The positions get_best_move is called on                                *)
(***************************************************************************)
WK == Piece(WHITE, KING)
WQ == Piece(WHITE, QUEEN)
WR == Piece(WHITE, ROOK)
WP == Piece(WHITE, PAWN)
BK == Piece(BLACK, KING)
BQ == Piece(BLACK, QUEEN)
BP == Piece(BLACK, PAWN)
WN == Piece(WHITE, KNIGHT)

Placements ==
  { \* Kb6 Qh7 against Ka8: white mates in one, black has one legal move
    (At(2, 6) :> WK) @@ (At(8, 7) :> WQ) @@ (At(1, 8) :> BK),
    \* Kb6 Qg1 against Ka8
    (At(2, 6) :> WK) @@ (At(7, 1) :> WQ) @@ (At(1, 8) :> BK),
    \* Kb6 Qb7 against Ka8: black is checkmated
    (At(2, 6) :> WK) @@ (At(2, 7) :> WQ) @@ (At(1, 8) :> BK),
    \* Kb3 Qb2 against Ka1: white is checkmated
    (At(2, 3) :> BK) @@ (At(2, 2) :> BQ) @@ (At(1, 1) :> WK),
    \* Kb6 Qc7 against Ka8: black is stalemated
    (At(2, 6) :> WK) @@ (At(3, 7) :> WQ) @@ (At(1, 8) :> BK),
    \* Kg1 Rd1 e4 against Kg8 Qd8 d5: captures in the centre
    (At(7, 1) :> WK) @@ (At(4, 1) :> WR) @@ (At(5, 4) :> WP)
      @@ (At(7, 8) :> BK) @@ (At(4, 8) :> BQ) @@ (At(4, 5) :> BP),
    \* Ke1 e5 a7 against Kh8 d7: double step, en passant, promotion
    (At(5, 1) :> WK) @@ (At(5, 5) :> WP) @@ (At(1, 7) :> WP)
      @@ (At(8, 8) :> BK) @@ (At(4, 7) :> BP),
    \* Kf1 Na6 against Kh1 f4: taking the pawn leaves insufficient material
    (At(6, 1) :> WK) @@ (At(1, 6) :> WN) @@ (At(8, 1) :> BK) @@ (At(6, 4) :> BP) }

\* the moves played before the call: only their number is read
\* (len(board.move_stack)); a board set up from a FEN string has none
History(n) ==
  [i \in 1 .. n |-> IF i % 2 = 1 THEN Mv(7, 1, 8, 1) ELSE Mv(8, 1, 7, 1)]

BoardOf(pm, turn, n, clock) ==
  [turn |-> turn, move_stack |-> History(n), halfmove_clock |-> clock,
   ep_square |-> NoSquare, pm |-> pm]

\* the side that is not to move is not in check
is_valid(b) == attackers(b, b.turn, king(b, ~b.turn)) = {}

\* number of moves played and halfmove clock of the positions
Settings == { << 0, 0 >>, << 10, 0 >>, << 0, 148 >> }

RootBoards ==
  {b \in {BoardOf(pm, t, s[1], s[2]) :
            pm \in Placements, t \in BOOLEAN, s \in Settings} : is_valid(b)}

(***************************************************************************)
(* Bounds of the model                                                     *)
(***************************************************************************)
\* the largest depth get_best_move is called with
MaxDepth == 4
\* with depth <= 0 the search stops only at decided positions: such calls
\* are explored on the positions whose games all end within MaxGamePlies plies
MaxGamePlies == 3

Depths == (0 - 1) .. MaxDepth

RECURSIVE EndsWithin(_, _)
EndsWithin(board, k) ==
  \/ outcome(board) # NoOutcome
  \/ /\ k > 0
     /\ \A i \in DOMAIN legal_moves(board) :
          EndsWithin(Push(board, legal_moves(board)[i]), k - 1)

(***************************************************************************)
(* ChessAgent.get_best_move, one call                                      *)
(*                                                                         *)
(*   board        self.board                                               *)
(*   depth, parallelize   the arguments of the call                        *)
(*   pc           "idle" (not called yet), "loop" (the for loop over the   *)
(*                legal moves), "collect" (the as_completed loop),         *)
(*                "select" (line 369), "returned", "raised"                *)
(*   color        self.board.turn, read at line 350                        *)
(*   moves, idx   list(self.board.legal_moves) and the loop's position     *)
(*   scores       the dict scores                                          *)
(*   futures      the futures submitted to the executor, in order:         *)
(*                each a record node, done, result                         *)
(*   future_to_move   the dict future_to_move (keys: indices of futures)   *)
(*   collected    the futures as_completed has yielded                     *)
(*   result       << >> or << the move returned >>                         *)
(*   error        NONE or the exception raised                             *)
(*   maximizing, value   the flag passed to, and the score returned by, a  *)
(*                direct call of _alphabeta or _get_heuristic              *)
(*   visited      the number of nodes a direct call of _alphabeta visited   *)
(*   calls        the calls of _alphabeta made so far by the searches of    *)
(*                the root moves                                            *)
(***************************************************************************)
VARIABLES board, depth, parallelize, pc, color, moves, idx, scores,
          futures, future_to_move, collected, result, error,
          maximizing, value, visited, calls

vars == << board, depth, parallelize, pc, color, moves, idx, scores,
           futures, future_to_move, collected, result, error,
           maximizing, value, visited, calls >>

\* read and written only by the direct calls of _get_heuristic and _alphabeta
\* (EvalSpec and SearchSpec below)
direct == << maximizing, value, visited >>

\* True passed as the alpha of the call of line 367, as a float, in hundredths
TrueAsFloat == 100

EmptyDict == [x \in {} |-> 0]
\* d[k] = v on a dict
DictSet(d, k, v) == [x \in (DOMAIN d) \cup {k} |-> IF x = k THEN v ELSE d[x]]

Init ==
  /\ board \in RootBoards
  /\ depth \in Depths
  /\ parallelize \in BOOLEAN
  /\ depth <= 0 => EndsWithin(board, MaxGamePlies)
  /\ pc = "idle"
  /\ color = WHITE
  /\ moves = << >>
  /\ idx = 1
  /\ scores = EmptyDict
  /\ futures = << >>
  /\ future_to_move = EmptyDict
  /\ collected = {}
  /\ result = << >>
  /\ error = NONE
  /\ maximizing = FALSE
  /\ value = 0
  /\ visited = 0
  /\ calls = {}

\* lines 350-351 and the list(...) of line 355 or 365
Call ==
  /\ pc = "idle"
  /\ pc' = "loop"
  /\ color' = board.turn
  /\ scores' = EmptyDict
  /\ moves' = legal_moves(board)
  /\ idx' = 1
  /\ UNCHANGED << board, depth, parallelize, futures, future_to_move,
                  collected, result, error,
                  direct, calls >>

\* line 367: the score recorded for a root move when parallelize is False
sequential_score(b, move, d, c) ==
  _alphabeta(play_move(b, move), d - 1, c, FALSE, TrueAsFloat, Inf, TRUE).value

\* lines 357-358: the result of the task submitted for a root move
task_score(next_board, d, c) ==
  _alphabeta(next_board, d - 1, c, FALSE, -Inf, Inf, TRUE).value

\* a faulty variant of sequential_calls: depth is passed on undiminished
sequential_calls_same_depth(b, move, d, c) ==
  traced_alphabeta(play_move(b, move), d, c, FALSE, TrueAsFloat, Inf, TRUE,
                   called_frame(MainFrame, move)).calls

\* line 367: the calls of _alphabeta made for a root move, in the calling
\* thread
sequential_calls(b, move, d, c) ==
  traced_alphabeta(play_move(b, move), d - 1, c, FALSE, TrueAsFloat, Inf, TRUE,
                   called_frame(MainFrame, move)).calls

\* lines 357-358: the calls of _alphabeta made by the task of a root move
task_calls(next_board, move, d, c) ==
  traced_alphabeta(next_board, d - 1, c, FALSE, -Inf, Inf, TRUE,
                   submitted_frame(MainFrame, move)).calls

\* lines 365-367: one iteration of the loop, parallelize False
SequentialIteration ==
  /\ pc = "loop"
  /\ ~parallelize
  /\ idx <= Len(moves)
  /\ scores' = DictSet(scores, moves[idx],
                       sequential_score(board, moves[idx], depth, color))
  /\ calls' = calls \cup sequential_calls(board, moves[idx], depth, color)
  /\ idx' = idx + 1
  /\ board' = play_move_objects(board, moves[idx]).board
  /\ UNCHANGED << depth, parallelize, pc, color, moves, futures,
                  future_to_move, collected, result, error,
                  direct >>

\* the end of the loop of line 365
SequentialLoopEnd ==
  /\ pc = "loop"
  /\ ~parallelize
  /\ idx > Len(moves)
  /\ pc' = "select"
  /\ UNCHANGED << board, depth, parallelize, color, moves, idx, scores,
                  futures, future_to_move, collected, result, error,
                  direct, calls >>

\* lines 355-358: one iteration of the loop, parallelize True; the dict
\* future_to_move is assigned a new one-entry dict
Submit ==
  /\ pc = "loop"
  /\ parallelize
  /\ idx <= Len(moves)
  /\ futures' = Append(futures, [node |-> play_move(board, moves[idx]),
                                 done |-> FALSE,
                                 result |-> 0])
  /\ future_to_move' = DictSet(EmptyDict, Len(futures) + 1, moves[idx])
  /\ idx' = idx + 1
  /\ board' = play_move_objects(board, moves[idx]).board
  /\ UNCHANGED << depth, parallelize, pc, color, moves, scores,
                  collected, result, error,
                  direct, calls >>

\* the end of the loop of line 355
ParallelLoopEnd ==
  /\ pc = "loop"
  /\ parallelize
  /\ idx > Len(moves)
  /\ pc' = "collect"
  /\ UNCHANGED << board, depth, parallelize, color, moves, idx, scores,
                  futures, future_to_move, collected, result, error,
                  direct, calls >>

\* a worker thread of the executor runs a submitted task to its end
Work(f) ==
  /\ ~futures[f].done
  /\ futures' = [futures EXCEPT ![f].done = TRUE,
                                ![f].result = task_score(futures[f].node,
                                                         depth, color)]
  /\ calls' = calls \cup task_calls(futures[f].node, moves[f], depth, color)
  /\ UNCHANGED << board, depth, parallelize, pc, color, moves, idx, scores,
                  future_to_move, collected, result, error,
                  direct >>

\* lines 359-362: as_completed yields a finished future of future_to_move
Collect(f) ==
  /\ pc = "collect"
  /\ f \notin collected
  /\ futures[f].done
  /\ scores' = DictSet(scores, future_to_move[f], futures[f].result)
  /\ collected' = collected \cup {f}
  /\ UNCHANGED << board, depth, parallelize, pc, color, moves, idx, futures,
                  future_to_move, result, error,
                  direct, calls >>

\* a faulty variant of ExitWith: the block is left when as_completed is
\* exhausted, without waiting for the other submitted tasks
ExitWith_without_wait ==
  /\ pc = "collect"
  /\ collected = DOMAIN future_to_move
  /\ pc' = "select"
  /\ UNCHANGED << board, depth, parallelize, color, moves, idx, scores,
                  futures, future_to_move, collected, result, error,
                  direct, calls >>

\* the end of the with block of line 353: the executor is shut down, which
\* waits for every submitted task
ExitWith ==
  /\ pc = "collect"
  /\ collected = DOMAIN future_to_move
  /\ \A f \in DOMAIN futures : futures[f].done
  /\ pc' = "select"
  /\ UNCHANGED << board, depth, parallelize, color, moves, idx, scores,
                  futures, future_to_move, collected, result, error,
                  direct, calls >>

\* a faulty variant of best_moves: a strict comparison with the maximum
best_moves_above_max(sc) ==
  {move \in DOMAIN sc : sc[move] > MaxOf({sc[m] : m \in DOMAIN sc})}

\* line 369
best_moves(sc) ==
  {move \in DOMAIN sc : sc[move] = MaxOf({sc[m] : m \in DOMAIN sc})}

\* line 370: random.choice(best_moves)
Return ==
  /\ pc = "select"
  /\ \E move \in best_moves(scores) :
       /\ result' = << move >>
       /\ pc' = "returned"
  /\ UNCHANGED << board, depth, parallelize, color, moves, idx, scores,
                  futures, future_to_move, collected, error,
                  direct, calls >>

\* a faulty variant of Raise: a null move is returned for an empty list
Raise_returns_null_move ==
  /\ pc = "select"
  /\ best_moves(scores) = {}
  /\ result' = << Move(0, 0, NONE) >>
  /\ pc' = "returned"
  /\ UNCHANGED << board, depth, parallelize, color, moves, idx, scores,
                  futures, future_to_move, collected, error,
                  direct, calls >>

\* line 370: random.choice of an empty list raises IndexError
Raise ==
  /\ pc = "select"
  /\ best_moves(scores) = {}
  /\ error' = "IndexError"
  /\ pc' = "raised"
  /\ UNCHANGED << board, depth, parallelize, color, moves, idx, scores,
                  futures, future_to_move, collected, result,
                  direct, calls >>

Next ==
  \/ Call
  \/ SequentialIteration
  \/ SequentialLoopEnd
  \/ Submit
  \/ ParallelLoopEnd
  \/ \E f \in DOMAIN futures : Work(f)
  \/ \E f \in DOMAIN future_to_move : Collect(f)
  \/ ExitWith
  \/ Return
  \/ Raise

Spec == Init /\ [][Next]_vars

\* line 365: the sequential loop has a legal move left to search
CanIterate == pc = "loop" /\ ~parallelize /\ idx <= Len(moves)

\* line 358: a task submitted to the executor has not been run yet
CanWork == \E f \in DOMAIN futures : ~futures[f].done

\* The calling thread runs on while it is not blocked, and the executor runs
\* every task submitted to it: a step that can be taken is taken.  For the two
\* steps that run a whole search, weak fairness is written out with the guard
\* of the step in the place of ENABLED.
FairSpec ==
  /\ Spec
  /\ WF_vars(Call \/ SequentialLoopEnd \/ Submit \/ ParallelLoopEnd
                  \/ ExitWith \/ Return \/ Raise)
  /\ WF_vars(\E f \in DOMAIN future_to_move : Collect(f))
  /\ ([]<>~CanIterate \/ []<><<SequentialIteration>>_vars)
  /\ ([]<>~CanWork \/ []<><<\E f \in DOMAIN futures : Work(f)>>_vars)

(***************************************************************************)
(* Direct calls of the evaluator and of the search                         *)
(***************************************************************************)
LegalSet(b) == {legal_moves(b)[i] : i \in DOMAIN legal_moves(b)}

Successors(S) == UNION {{Push(b, m) : m \in LegalSet(b)} : b \in S}

\* the positions within k plies of the positions of S
RECURSIVE Reach(_, _)
Reach(S, k) == IF k = 0 THEN S ELSE S \cup Reach(Successors(S), k - 1)

BN == Piece(BLACK, KNIGHT)

\* positions with pawns of both colours, of 12 and of 13 pieces.  White has
\* two pawns on the a file next to a pawn on the b file and pawns alone on
\* the e and h files; Black has pawns on the c and d files next to each
\* other and a pawn alone on the h file; the a, b and e files hold white
\* pawns only, the c and d files black pawns only.
PawnPlacements ==
  LET twelve ==
        (At(7, 1) :> WK) @@ (At(4, 1) :> WR) @@ (At(1, 2) :> WP)
          @@ (At(1, 3) :> WP) @@ (At(2, 2) :> WP) @@ (At(5, 4) :> WP)
          @@ (At(8, 2) :> WP)
          @@ (At(7, 8) :> BK) @@ (At(4, 8) :> BQ) @@ (At(4, 5) :> BP)
          @@ (At(3, 7) :> BP) @@ (At(8, 7) :> BP)
  IN {twelve, twelve @@ (At(2, 8) :> BN)}

\* numbers of moves played on each side of the limit of line 110
PhaseHistories == {11, 12}

\* the positions that tell the game phases apart
PhaseBoards ==
  {b \in {BoardOf(pm, t, n, 0) :
            pm \in PawnPlacements, t \in BOOLEAN, n \in PhaseHistories} :
     is_valid(b)}

\* the positions the evaluator is called on: the root positions, the same
\* with a halfmove clock of 99, all positions within two plies of them, and
\* the positions of PhaseBoards
EvalBoards ==
  Reach(RootBoards
          \cup {b \in {BoardOf(pm, t, 0, 99) : pm \in Placements, t \in BOOLEAN} :
                  is_valid(b)},
        2)
    \cup PhaseBoards

EvalInit ==
  /\ board \in EvalBoards
  /\ color \in BOOLEAN
  /\ pc = "idle"
  /\ depth = 0
  /\ parallelize = FALSE
  /\ moves = << >>
  /\ idx = 1
  /\ scores = EmptyDict
  /\ futures = << >>
  /\ future_to_move = EmptyDict
  /\ collected = {}
  /\ result = << >>
  /\ error = NONE
  /\ maximizing = FALSE
  /\ value = 0
  /\ visited = 0
  /\ calls = {}

\* value = self._get_heuristic(board, color)
Evaluate ==
  /\ pc = "idle"
  /\ value' = _get_heuristic(board, color)
  /\ pc' = "evaluated"
  /\ UNCHANGED << board, depth, parallelize, color, moves, idx, scores,
                  futures, future_to_move, collected, result, error,
                  maximizing, visited, calls >>

EvalNext == Evaluate

EvalSpec == EvalInit /\ [][EvalNext]_vars

SearchInit ==
  /\ board \in RootBoards
  /\ depth \in 0 .. MaxDepth
  /\ color \in BOOLEAN
  /\ maximizing \in BOOLEAN
  /\ parallelize \in BOOLEAN
  /\ pc = "idle"
  /\ moves = << >>
  /\ idx = 1
  /\ scores = EmptyDict
  /\ futures = << >>
  /\ future_to_move = EmptyDict
  /\ collected = {}
  /\ result = << >>
  /\ error = NONE
  /\ value = 0
  /\ visited = 0
  /\ calls = {}

\* value = self._alphabeta(board, depth, color, maximizing,
\*                         float("-inf"), float("inf"), parallelize)
Search ==
  /\ pc = "idle"
  /\ LET r == _alphabeta(board, depth, color, maximizing, -Inf, Inf,
                         parallelize)
     IN /\ value' = r.value
        /\ visited' = r.visited
  /\ pc' = "searched"
  /\ UNCHANGED << board, depth, parallelize, color, moves, idx, scores,
                  futures, future_to_move, collected, result, error,
                  maximizing, calls >>

SearchNext == Search

SearchSpec == SearchInit /\ [][SearchNext]_vars

OrderInit ==
  /\ board \in EvalBoards
  /\ color = WHITE
  /\ pc = "idle"
  /\ depth = 0
  /\ parallelize = FALSE
  /\ moves = << >>
  /\ idx = 1
  /\ scores = EmptyDict
  /\ futures = << >>
  /\ future_to_move = EmptyDict
  /\ collected = {}
  /\ result = << >>
  /\ error = NONE
  /\ maximizing = FALSE
  /\ value = 0
  /\ visited = 0
  /\ calls = {}

\* moves = self.get_ordered_legal_moves(board)
Order ==
  /\ pc = "idle"
  /\ moves' = get_ordered_legal_moves(board)
  /\ pc' = "ordered"
  /\ UNCHANGED << board, depth, parallelize, color, idx, scores,
                  futures, future_to_move, collected, result, error,
                  direct, calls >>

OrderNext == Order

OrderSpec == OrderInit /\ [][OrderNext]_vars

(***************************************************************************)
(* The reference of the claims: the minimax walk without pruning           *)
(***************************************************************************)
RECURSIVE Minimax(_, _, _, _)
RECURSIVE MinimaxChildren(_, _, _, _, _, _)

\* the results of the children of a node from the i-th legal move on
MinimaxChildren(node, legal, i, d, c, maximizing_player) ==
  IF i > Len(legal) THEN << >>
  ELSE << Minimax(Push(node, legal[i]), d - 1, c, ~maximizing_player) >>
         \o MinimaxChildren(node, legal, i + 1, d, c, maximizing_player)

Minimax(node, d, c, maximizing_player) ==
  IF d = 0 \/ outcome(node) # NoOutcome
    THEN Result(_get_heuristic(node, c), 1)
  ELSE LET results == MinimaxChildren(node, legal_moves(node), 1, d, c,
                                      maximizing_player)
           values == {results[i].value : i \in DOMAIN results}
           counts == [i \in DOMAIN results |-> results[i].visited]
       IN Result(IF maximizing_player THEN MaxOf(values) ELSE MinOf(values),
                 1 + SumOver(counts, DOMAIN results))

\* the position reached from b by the moves of path
RECURSIVE NodeAt(_, _)
NodeAt(b, path) ==
  IF Len(path) = 0 THEN b ELSE NodeAt(Push(b, Head(path)), Tail(path))

\* the root moves that lead directly to a position won by the side to move
WinningMoves(b) ==
  {m \in LegalSet(b) : outcome(Push(b, m)).winner = color_name(b.turn)}

(***************************************************************************)
(* Claims                                                                  *)
(***************************************************************************)

\* C1: with parallelize False and depth >= 1, the score recorded for every
\* root move is the unpruned minimax value of the successor position searched
\* to depth - 1 plies, the opponent minimizing first, leaves evaluated for the
\* root's side to move.
C1_SequentialScoresAreMinimax ==
  (~parallelize /\ depth >= 1) =>
    \A m \in DOMAIN scores :
      scores[m] = Minimax(play_move(board, m), depth - 1, board.turn, FALSE).value

\* C2: when the best move is selected, the scores dict has exactly the legal
\* moves of the root position as its keys, in both modes.
C2_ScoresHoldEveryLegalMove ==
  pc = "select" => DOMAIN scores = LegalSet(board)

\* C3: the move returned is a legal root move whose score is the maximum over
\* all legal root moves, no move of a lower score is returned, and every legal
\* root move of maximal score can be returned.
C3_ReturnsAnyBestMove ==
  /\ pc = "returned" =>
       /\ result[1] \in LegalSet(board)
       /\ \A m \in LegalSet(board) :
            m \in DOMAIN scores /\ scores[m] <= scores[result[1]]
  /\ pc = "select" =>
       \A m \in LegalSet(board) :
         (\A n \in LegalSet(board) :
            /\ n \in DOMAIN scores
            /\ m \in DOMAIN scores
            /\ scores[n] <= scores[m])
           => m \in best_moves(scores)

\* C4: _alphabeta with the full window returns the value of the unpruned
\* minimax walk of the same tree, for every position, depth >= 0, colour,
\* maximizing flag and value of parallelize.
C4_FullWindowIsMinimax ==
  pc = "searched" => value = Minimax(board, depth, color, maximizing).value

\* C4 witness: a sequential search that pruned: it visited fewer nodes than
\* the minimax walk and returned its value.
C4_Witness ==
  /\ pc = "searched"
  /\ ~parallelize
  /\ visited < Minimax(board, depth, color, maximizing).visited
  /\ value = Minimax(board, depth, color, maximizing).value

\* C5: on a position with exactly one legal move, a call with depth >= 1 ends
\* by returning that move, in both modes.
C5_SingleLegalMoveIsReturned ==
  (Len(legal_moves(board)) = 1 /\ depth >= 1 /\ pc \in {"returned", "raised"})
    => (pc = "returned" /\ result = << legal_moves(board)[1] >>)

\* C5 witness: a parallel call of depth >= 2 on a position with one legal
\* move has returned.
C5_Witness ==
  /\ Len(legal_moves(board)) = 1
  /\ depth >= 2
  /\ parallelize
  /\ pc = "returned"

\* C6: when some root move wins at once, a call with depth 2 returns such a
\* move and its recorded score is the win score 1e6, in both modes.
C6_WinningMoveIsReturned ==
  (depth = 2 /\ WinningMoves(board) # {} /\ pc = "returned") =>
    /\ result[1] \in WinningMoves(board)
    /\ scores[result[1]] = WinScore

\* C7: on a position without legal moves the call returns no move: it ends
\* with the error raised at line 370.
C7_NoLegalMoveRaises ==
  Len(legal_moves(board)) = 0 =>
    /\ pc # "returned"
    /\ result = << >>
    /\ pc = "select" => best_moves(scores) = {}
    /\ pc = "raised" => error = "IndexError"

\* C7 witness: a parallel call on a position without legal moves has raised.
C7_Witness ==
  /\ Len(legal_moves(board)) = 0
  /\ parallelize
  /\ pc = "raised"
  /\ error = "IndexError"

\* C8: a call with depth <= 0 on a position with legal moves does not return
\* a move.
C8_NonPositiveDepthFails ==
  (depth <= 0 /\ Len(legal_moves(board)) > 0) =>
    (pc # "returned" /\ result = << >>)

\* C9: on a position decided with a winner, the score for a colour is the
\* negation of the score for the other colour: 1e6 for the winner and -1e6
\* for the loser.
C9_DecidedScoresAreOpposite ==
  (pc = "evaluated" /\ outcome(board).winner # NONE) =>
    /\ value = -_get_heuristic(board, ~color)
    /\ outcome(board).winner = color_name(color) => value = WinScore
    /\ outcome(board).winner # color_name(color) => value = -WinScore

\* C9 witness: a checkmate has been evaluated for the colour that lost.
C9_Witness ==
  /\ pc = "evaluated"
  /\ outcome(board).winner # NONE
  /\ outcome(board).winner # color_name(color)
  /\ value = -WinScore

\* C10: the score is exactly 0.5 on every position whose outcome is a draw
\* and on every undecided position where a draw can be claimed, for both
\* colours and any material.
C10_DrawsScoreHalf ==
  (/\ pc = "evaluated"
   /\ \/ outcome(board) # NoOutcome /\ outcome(board).winner = NONE
      \/ outcome(board) = NoOutcome /\ can_claim_draw(board))
    => value = 50

\* C10 witness: an undecided position with unequal material where a draw can
\* be claimed has been evaluated.
C10_Witness ==
  /\ pc = "evaluated"
  /\ outcome(board) = NoOutcome
  /\ can_claim_draw(board)
  /\ material_term(board, color, game_phase_of(board)) # 0
  /\ value = 50

C12_OrderDoesNotChangeScore ==
  pc = "searched" =>
    \A ord \in Orders :
      permuted_alphabeta(board, depth, color, maximizing, -Inf, Inf,
                         parallelize, ord) = value

\* C12 witness: a sequential search of depth >= 2 that pruned, on a position
\* whose moves every other order iterates differently.
C12_Witness ==
  /\ pc = "searched"
  /\ ~parallelize
  /\ depth >= 2
  /\ visited < Minimax(board, depth, color, maximizing).visited
  /\ \A ord \in Orders :
       moves_in_order(board, ord) # get_ordered_legal_moves(board)
  /\ permuted_alphabeta(board, depth, color, maximizing, -Inf, Inf,
                        parallelize, "worst_first") = value


\* C13: get_ordered_legal_moves returns a permutation of the legal moves of
\* the board (every legal move once and no other move, en passant captures
\* and promotions included), non-increasing in the priority score.
C13_OrderedMovesArePermutation ==
  pc = "ordered" =>
    /\ Len(moves) = Len(legal_moves(board))
    /\ \A j \in DOMAIN moves : moves[j] \in LegalSet(board)
    /\ \A m \in LegalSet(board) :
         Cardinality({j \in DOMAIN moves : moves[j] = m}) = 1
    /\ \A j \in 1 .. (Len(moves) - 1) :
         move_priority(board, moves[j]) >= move_priority(board, moves[j + 1])

\* C13 witness: the moves of a position with an en passant capture and a
\* promotion have been ordered, in an order that is not the order of
\* board.legal_moves.
C13_Witness ==
  /\ pc = "ordered"
  /\ \E j \in DOMAIN moves : is_en_passant(board, moves[j])
  /\ \E j \in DOMAIN moves : moves[j].promotion # NONE
  /\ moves # legal_moves(board)

C15_ColourIsRootSideToMove ==
  \A c \in calls :
    /\ c.color = board.turn
    /\ c.maximizing_player <=> (c.turn = board.turn)
    /\ c.turn = NodeAt(board, c.path).turn
    /\ ~c.expanded => c.value = _get_heuristic(NodeAt(board, c.path), board.turn)

\* C15 witness: a search that evaluated a leaf where the opponent of the root
\* colour is to move and whose evaluation differs between the colours, and a
\* leaf where the root colour is to move.
C15_Witness ==
  /\ pc = "returned"
  /\ \E c \in calls :
       /\ ~c.expanded
       /\ c.turn # board.turn
       /\ ~c.maximizing_player
       /\ c.value # _get_heuristic(NodeAt(board, c.path), c.turn)
  /\ \E c \in calls : ~c.expanded /\ c.turn = board.turn /\ c.maximizing_player

\* the nodes of a call with depth >= 1 lie 1 to depth plies below the root,
\* with the remaining depth that matches, and the leaves are the nodes depth
\* plies below the root and the nodes with a decided outcome
C16_DepthLimit ==
  depth >= 1 =>
    \A c \in calls :
      /\ Len(c.path) >= 1
      /\ Len(c.path) <= depth
      /\ c.depth = depth - Len(c.path)
      /\ ~c.expanded <=> (Len(c.path) = depth \/ c.decided)

\* C16: a call of get_best_move with depth >= 1 terminates; a node is
\* evaluated without being expanded exactly when it lies depth plies below
\* the root or has a decided outcome, and no node lies more than depth plies
\* below the root.
C16_SearchStopsAtDepth ==
  /\ []C16_DepthLimit
  /\ (depth >= 1) ~> (pc \in {"returned", "raised"})

\* C16 witness: a call of depth >= 2 has returned after evaluating an
\* undecided node depth plies below the root and a decided node above that
\* ply.
C16_Witness ==
  /\ pc = "returned"
  /\ depth >= 2
  /\ \E c \in calls : ~c.expanded /\ ~c.decided /\ Len(c.path) = depth
  /\ \E c \in calls : ~c.expanded /\ c.decided /\ Len(c.path) < depth
  /\ \E c \in calls : c.expanded /\ Len(c.path) = depth - 1

\* C17: in a parallel search a pool serves the root's candidate moves only:
\* every call of _alphabeta made for a root move runs in the thread of the
\* task submitted for that root move, and none of them runs an executor of
\* its own.
C17_PoolOnlyForRootMoves ==
  parallelize =>
    \A c \in calls :
      /\ c.unit = SubSeq(c.path, 1, 1)
      /\ ~c.pool

\* C18: a search with parallelize = FALSE makes every call of _alphabeta in
\* the calling thread, and no call runs an executor.
C18_SequentialSearchHasNoPool ==
  ~parallelize =>
    \A c \in calls :
      /\ c.unit = MainFrame.unit
      /\ ~c.pool

\* C19: no board object is used by two threads.  Every call of _alphabeta on
\* one board object runs in one thread; the board given to a submitted task
\* is given to no other task and is not used by the thread that submitted
\* it; self.board, the parent of the root tasks, is used by no task.
C19_NoBoardSharedByThreads ==
  LET tasks == {c \in calls : c.unit = c.path}
      submitter(c) ==
        IF Len(c.path) = 1
          THEN MainFrame.unit
          ELSE (CHOOSE p \in calls :
                  p.path = SubSeq(c.path, 1, Len(c.path) - 1)).unit
  IN /\ \A c \in calls : c.id # MainFrame.id
     /\ \A c1 \in calls : \A c2 \in calls :
          c1.id = c2.id => c1.unit = c2.unit
     /\ \A c1 \in tasks : \A c2 \in tasks :
          c1.id = c2.id => c1.path = c2.path
     /\ \A c \in tasks : \A c2 \in calls :
          c2.unit = submitter(c) => c2.id # c.id

\* C19 witness: a parallel search has returned after two tasks submitted for
\* root moves ran, one of which submitted two tasks of its own, whose calls
\* went on below in the threads of those tasks.
C19_Witness ==
  /\ parallelize
  /\ pc = "returned"
  /\ \E c1 \in calls : \E c2 \in calls :
       /\ Len(c1.path) = 1 /\ Len(c2.path) = 1 /\ c1.unit # c2.unit
  /\ \E c1 \in calls : \E c2 \in calls : \E c3 \in calls :
       /\ Len(c1.path) = 2 /\ c1.unit = c1.path
       /\ Len(c2.path) = 2 /\ c2.unit = c2.path
       /\ c1.path # c2.path
       /\ SubSeq(c1.path, 1, 1) = SubSeq(c2.path, 1, 1)
       /\ Len(c3.path) = 3 /\ c3.unit = c1.unit

\* C20: in a parallel call, once the selection of lines 369-370 has started
\* (and when the call has returned or raised), a task has been submitted for
\* every legal root move and every submitted task has completed.
C20_SelectionAfterAllTasks ==
  (parallelize /\ pc \in {"select", "returned", "raised"}) =>
    /\ Len(futures) = Len(moves)
    /\ \A f \in DOMAIN futures : futures[f].done

\* C20 witness: a parallel call over two or more root moves has returned;
\* as_completed has yielded fewer futures than were submitted.
C20_Witness ==
  /\ parallelize
  /\ pc = "returned"
  /\ Len(futures) >= 2
  /\ Cardinality(collected) < Len(futures)
  /\ \A f \in DOMAIN futures : futures[f].done

\* play_move on board b with move m leaves b as it was and returns another
\* board, the one push(m) gives: the history of b with m added
C21_PlayMoveCopies(b, m) ==
  LET objects == play_move_objects(b, m)
  IN /\ objects.board = b
     /\ objects.new_board = play_move(b, m)
     /\ objects.new_board.move_stack = Append(b.move_stack, m)
     /\ Len(objects.new_board.move_stack) = Len(b.move_stack) + 1

\* play_move copies on the agent's board and on the boards one move below
\* it, and no call of _alphabeta made so far has changed its node
C21_NodesAreNotChanged ==
  /\ \A i \in DOMAIN legal_moves(board) :
       LET m == legal_moves(board)[i]
           child == play_move(board, m)
       IN /\ C21_PlayMoveCopies(board, m)
          /\ \A j \in DOMAIN legal_moves(child) :
               C21_PlayMoveCopies(child, legal_moves(child)[j])
  /\ \A c \in calls : ~c.mutated

\* C21: get_best_move and _alphabeta never change a position they are
\* given: play_move leaves its argument unchanged and returns a new board
\* with exactly one more move, no call of _alphabeta changes its node, and
\* no step of get_best_move changes the agent's board, so that the board is
\* the same after the call returns or raises as before it.
C21_PositionsAreNeverChanged ==
  /\ []C21_NodesAreNotChanged
  /\ [][board' = board]_vars

\* C21 witness: a call has returned after play_move was called on the
\* agent's board for two or more root moves and on a node below it for two
\* or more of its moves.
C21_Witness ==
  /\ pc = "returned"
  /\ Len(moves) >= 2
  /\ \E c \in calls : c.expanded /\ ~c.parallelize /\ Len(c.updates) >= 2
  /\ \A c \in calls : ~c.mutated

\* the files that hold a pawn of the colour
PawnFiles(b, c) == {square_file(sq) : sq \in pieces(b, PAWN, c)}

\* the files with an own pawn and no opposing pawn
PassedFiles(b, c) == PawnFiles(b, c) \ PawnFiles(b, ~c)

\* the files with two or more own pawns
DoubledFiles(b, c) ==
  {f \in 0 .. 7 : \E p, q \in pieces(b, PAWN, c) :
                     p # q /\ square_file(p) = f /\ square_file(q) = f}

\* the files with an own pawn and no own pawn on an adjacent file
IsolatedFiles(b, c) ==
  {f \in PawnFiles(b, c) :
     (f - 1) \notin PawnFiles(b, c) /\ (f + 1) \notin PawnFiles(b, c)}

\* the four pawn-structure terms: passed pawns with weight w, doubled pawns
\* with the weight of line 145, isolated pawns with the weights of lines
\* 183-192 (0.15 on the a and h files, 0.2 on the others)
FourPawnTerms(b, c, w) ==
  w * Cardinality(PassedFiles(b, c))
    - w * Cardinality(PassedFiles(b, ~c))
    - 30 * Cardinality(DoubledFiles(b, c))
    - 15 * Cardinality(IsolatedFiles(b, c) \cap {0, 7})
    - 20 * Cardinality(IsolatedFiles(b, c) \ {0, 7})

\* the passed-pawn terms alone
PassedPawnTerms(b, c, w) ==
  w * Cardinality(PassedFiles(b, c)) - w * Cardinality(PassedFiles(b, ~c))

\* the part of the score of an evaluated MIDGAME or ENDGAME position that is
\* left when the terms that do not look at the pawn structure are taken away
PawnStructurePart ==
  value - material_term(board, color, game_phase_of(board))
        - (IF game_phase_of(board) = MIDGAME
             THEN king_position_term(board, color) + center_term(board, color)
           ELSE king_activity_term(board))

\* an undecided position without a claimable draw has been evaluated
Classified ==
  /\ pc = "evaluated"
  /\ outcome(board) = NoOutcome
  /\ ~can_claim_draw(board)

\* C22 as stated: for every undecided position classified MIDGAME or
\* ENDGAME the score holds all four per-file pawn-structure terms: the
\* bonus for passed pawns, the penalty for the opponent's passed pawns, the
\* penalty for doubled pawns and the penalty for isolated pawns.
C22_AllFourPawnTerms ==
  (Classified /\ game_phase_of(board) \in {MIDGAME, ENDGAME}) =>
    PawnStructurePart =
      FourPawnTerms(board, color,
                    IF game_phase_of(board) = MIDGAME THEN 20 ELSE 100)

\* C22 amended: a MIDGAME position gets all four pawn-structure terms; an
\* ENDGAME position gets the two passed-pawn terms only, without a penalty
\* for doubled or isolated pawns.
C22_PawnTermsByPhase ==
  /\ (Classified /\ game_phase_of(board) = MIDGAME) =>
       PawnStructurePart = FourPawnTerms(board, color, 20)
  /\ (Classified /\ game_phase_of(board) = ENDGAME) =>
       PawnStructurePart = PassedPawnTerms(board, color, 100)

\* C22 witness: an ENDGAME position has been evaluated for a colour with a
\* passed pawn, a doubled pawn and an isolated pawn, against a passed pawn
\* of the opponent.
C22_Witness ==
  /\ Classified
  /\ game_phase_of(board) = ENDGAME
  /\ PassedFiles(board, color) # {}
  /\ PassedFiles(board, ~color) # {}
  /\ DoubledFiles(board, color) # {}
  /\ IsolatedFiles(board, color) # {}

\* the phase by the number of half-moves played and the number of pieces
PhaseByCounts(played, count) ==
  IF played < 12 THEN OPENING
  ELSE IF count < 13 THEN ENDGAME
  ELSE MIDGAME

\* the value of the pieces of the colour less the value of the other pieces
MaterialDifference(b, c) ==
  LET signed == [sq \in DOMAIN b.pm |->
                   IF b.pm[sq].color = c THEN get_value(b.pm[sq])
                   ELSE 0 - get_value(b.pm[sq])]
  IN SumOver(signed, DOMAIN b.pm)

\* the weight of the material difference in a phase, in hundredths
MaterialWeight(phase) ==
  IF phase = OPENING THEN 100 ELSE IF phase = MIDGAME THEN 150 ELSE 300

\* the terms of the score of a phase other than the material
PhaseTerms(b, c, phase) ==
  IF phase = OPENING
    THEN king_position_term(b, c) + center_term(b, c)
           + double_pawn_term(b, c) + opening_term(b, c)
  ELSE IF phase = MIDGAME
    THEN king_position_term(b, c) + center_term(b, c)
           + double_pawn_term(b, c) + passed_pawn_term(b, c, 20)
           + isolated_pawn_term(b, c)
  ELSE passed_pawn_term(b, c, 100) + king_activity_term(b)

====
